---------------------------- MODULE Spec2Model ----------------------------
(***************************************************************************)
(* A model of udptools: the trace codec (Packet.parse_packet and the       *)
(* "%.10f\t%s\n" line format), the recorder loop (UDPDump.__dump_loop,     *)
(* record), the player loops (UDPPlay.__play_loop, play) and the seeks     *)
(* (find_timestamp, find_timestamp_smart, UDPPlay.find_timestamp_position).*)
(*                                                                         *)
(* The sources are Python 2.  A trace file is a sequence of characters     *)
(* (one-character strings), a payload a sequence of bytes 0..255.  Times   *)
(* and timestamps are integers counting tenths of a second, so 15 is the   *)
(* Python float 1.5; every trace of the model carries timestamps with one  *)
(* significant fractional digit.                                           *)
(***************************************************************************)
EXTENDS Integers, Sequences, FiniteSets, TLC

(***************************************************************************)
(* Bounds of the model.                                                    *)
(***************************************************************************)
\* longest payload, in bytes, of a datagram or of an encoded record
MaxPayload == 2
\* largest timestamp, in tenths of a second, given to the codec
MaxStamp == 12

\* the bytes payloads are built from: NUL, TAB, LF, 'A', 0xFF
ByteSamples == {0, 9, 10, 65, 255}

RECURSIVE SeqsUpTo(_, _)
SeqsUpTo(S, n) ==
    IF n = 0 THEN {<<>>}
    ELSE LET shorter == SeqsUpTo(S, n - 1)
         IN  shorter \cup {Append(s, x) : s \in {t \in shorter : Len(t) = n - 1}, x \in S}

Payloads == SeqsUpTo(ByteSamples, MaxPayload)

(***************************************************************************)
(* Characters and strings of characters.                                   *)
(***************************************************************************)
TAB == "\t"
NL == "\n"
Whitespace == {" ", TAB, NL, "\r"}
DigitChars == <<"0", "1", "2", "3", "4", "5", "6", "7", "8", "9">>

DigitChar(d) == DigitChars[d + 1]
IsDigit(c) == \E i \in 1..10 : DigitChars[i] = c
DigitValue(c) == (CHOOSE i \in 1..10 : DigitChars[i] = c) - 1

Drop(s, n) == SubSeq(s, n + 1, Len(s))
Take(s, n) == SubSeq(s, 1, n)

\* str(n) for a natural number n
RECURSIVE NatDigits(_)
NatDigits(n) ==
    IF n < 10 THEN <<DigitChar(n)>>
    ELSE Append(NatDigits(n \div 10), DigitChar(n % 10))

RECURSIVE Zeros(_)
Zeros(n) == IF n = 0 THEN <<>> ELSE <<"0">> \o Zeros(n - 1)

\* number of digits "%.10f" prints after the decimal point
FracDigits == 10

\* "%.10f" % t for a time t in tenths of a second
FormatTimestamp(t) ==
    LET a == IF t < 0 THEN 0 - t ELSE t
    IN  (IF t < 0 THEN <<"-">> ELSE <<>>)
          \o NatDigits(a \div 10) \o <<".", DigitChar(a % 10)>> \o Zeros(FracDigits - 1)

(***************************************************************************)
(* base64.b64encode and base64.b64decode.                                  *)
(***************************************************************************)
B64Alphabet ==
    <<"A", "B", "C", "D", "E", "F", "G", "H", "I", "J", "K", "L", "M",
      "N", "O", "P", "Q", "R", "S", "T", "U", "V", "W", "X", "Y", "Z",
      "a", "b", "c", "d", "e", "f", "g", "h", "i", "j", "k", "l", "m",
      "n", "o", "p", "q", "r", "s", "t", "u", "v", "w", "x", "y", "z",
      "0", "1", "2", "3", "4", "5", "6", "7", "8", "9", "+", "/">>
B64Pad == "="

B64Char(v) == B64Alphabet[v + 1]
IsB64(c) == \E i \in 1..64 : B64Alphabet[i] = c
B64Value(c) == (CHOOSE i \in 1..64 : B64Alphabet[i] = c) - 1

\* a mutant of b64encode: the second character of a one-byte group loses the
\* low two bits of the byte
RECURSIVE b64encode_lossy(_)
b64encode_lossy(bytes) ==
    IF bytes = <<>> THEN <<>>
    ELSE IF Len(bytes) = 1 THEN
        <<B64Char(bytes[1] \div 4), B64Char(0), B64Pad, B64Pad>>
    ELSE IF Len(bytes) = 2 THEN
        <<B64Char(bytes[1] \div 4),
          B64Char((bytes[1] % 4) * 16 + bytes[2] \div 16),
          B64Char((bytes[2] % 16) * 4), B64Pad>>
    ELSE
        <<B64Char(bytes[1] \div 4),
          B64Char((bytes[1] % 4) * 16 + bytes[2] \div 16),
          B64Char((bytes[2] % 16) * 4 + bytes[3] \div 64),
          B64Char(bytes[3] % 64)>> \o b64encode_lossy(Drop(bytes, 3))

RECURSIVE b64encode(_)
b64encode(bytes) ==
    IF bytes = <<>> THEN <<>>
    ELSE IF Len(bytes) = 1 THEN
        <<B64Char(bytes[1] \div 4), B64Char((bytes[1] % 4) * 16), B64Pad, B64Pad>>
    ELSE IF Len(bytes) = 2 THEN
        <<B64Char(bytes[1] \div 4),
          B64Char((bytes[1] % 4) * 16 + bytes[2] \div 16),
          B64Char((bytes[2] % 16) * 4), B64Pad>>
    ELSE
        <<B64Char(bytes[1] \div 4),
          B64Char((bytes[1] % 4) * 16 + bytes[2] \div 16),
          B64Char((bytes[2] % 16) * 4 + bytes[3] \div 64),
          B64Char(bytes[3] % 64)>> \o b64encode(Drop(bytes, 3))

\* 2^n for the shifts of the decoder
RECURSIVE Pow2(_)
Pow2(n) == IF n = 0 THEN 1 ELSE 2 * Pow2(n - 1)

\* binascii_find_valid(s, 1) called at a pad character at index i: the next
\* character of s after i that is a base64 character or a pad ("" if none)
RECURSIVE NextValid(_, _)
NextValid(s, i) ==
    IF i + 1 > Len(s) THEN ""
    ELSE IF IsB64(s[i + 1]) \/ s[i + 1] = B64Pad THEN s[i + 1]
    ELSE NextValid(s, i + 1)

\* binascii.a2b_base64 as Python 2 runs it: characters outside the alphabet
\* are passed over, a valid pad sequence ends the input, and bits left over at
\* the end are "Incorrect padding", which b64decode raises as a TypeError
RECURSIVE A2bBase64(_, _, _, _, _, _)
A2bBase64(s, i, quad_pos, leftchar, leftbits, out) ==
    IF i > Len(s) THEN
        IF leftbits # 0 THEN [ok |-> FALSE, data |-> <<>>]
        ELSE [ok |-> TRUE, data |-> out]
    ELSE IF s[i] = B64Pad THEN
        IF quad_pos < 2 \/ (quad_pos = 2 /\ NextValid(s, i) # B64Pad)
        THEN A2bBase64(s, i + 1, quad_pos, leftchar, leftbits, out)
        ELSE [ok |-> TRUE, data |-> out]
    ELSE IF ~IsB64(s[i]) THEN
        A2bBase64(s, i + 1, quad_pos, leftchar, leftbits, out)
    ELSE
        LET q == (quad_pos + 1) % 4
            lc == leftchar * 64 + B64Value(s[i])
            lb == leftbits + 6
        IN  IF lb >= 8
            THEN A2bBase64(s, i + 1, q, lc % Pow2(lb - 8), lb - 8,
                           Append(out, (lc \div Pow2(lb - 8)) % 256))
            ELSE A2bBase64(s, i + 1, q, lc, lb, out)

b64decode(s) == A2bBase64(s, 1, 0, 0, 0, <<>>)

(***************************************************************************)
(* str.split, str.rstrip and float, as far as the traces need them.        *)
(***************************************************************************)
\* s.split(sep) for a one-character separator
RECURSIVE Split(_, _)
Split(s, sep) ==
    IF \A i \in 1..Len(s) : s[i] # sep THEN <<s>>
    ELSE LET k == CHOOSE i \in 1..Len(s) : s[i] = sep /\ \A j \in 1..(i - 1) : s[j] # sep
         IN  <<Take(s, k - 1)>> \o Split(Drop(s, k), sep)

RECURSIVE rstrip(_)
rstrip(s) ==
    IF s # <<>> /\ s[Len(s)] \in Whitespace THEN rstrip(Take(s, Len(s) - 1)) ELSE s

RECURSIVE lstrip(_)
lstrip(s) ==
    IF s # <<>> /\ s[1] \in Whitespace THEN lstrip(Drop(s, 1)) ELSE s

RECURSIVE DigitsValue(_)
DigitsValue(s) ==
    IF s = <<>> THEN 0 ELSE 10 * DigitsValue(Take(s, Len(s) - 1)) + DigitValue(s[Len(s)])

AllDigits(s) == \A i \in 1..Len(s) : IsDigit(s[i])

\* float(s): surrounding whitespace is stripped; an optional sign, digits and
\* an optional fraction are read; anything else is a ValueError.  The value is
\* in tenths of a second: the first fractional digit is kept (the traces of
\* the model have zeros after it).  Exponents, "inf" and "nan" are not in any
\* trace of the model.
float(s) ==
    LET t == rstrip(lstrip(s))
        neg == t # <<>> /\ t[1] = "-"
        u == IF t # <<>> /\ t[1] \in {"-", "+"} THEN Drop(t, 1) ELSE t
        parts == Split(u, ".")
        ip == parts[1]
        fp == IF Len(parts) = 2 THEN parts[2] ELSE <<>>
        good == /\ Len(parts) \in {1, 2}
                /\ AllDigits(ip) /\ AllDigits(fp)
                /\ Len(ip) + Len(fp) > 0
        mag == 10 * DigitsValue(ip) + (IF fp = <<>> THEN 0 ELSE DigitValue(fp[1]))
    IN  IF good THEN [ok |-> TRUE, val |-> IF neg THEN 0 - mag ELSE mag]
        ELSE [ok |-> FALSE, val |-> 0]

ParseError(why) == [ok |-> FALSE, timestamp |-> 0, data |-> <<>>, why |-> why]

\* a mutant of parse_packet: the data field is decoded without its last
\* character (the rstrip cuts one character too many)
parse_packet_short(raw_data) ==
    LET parts == Split(raw_data, TAB)
    IN  IF Len(parts) # 2 THEN ParseError("split")
        ELSE LET f == float(parts[1])
                 stripped == rstrip(parts[2])
                 d == b64decode(Take(stripped, Len(stripped) - 1))
             IN  IF ~f.ok \/ f.val < 0 THEN ParseError("timestamp")
                 ELSE IF ~d.ok THEN ParseError("data")
                 ELSE [ok |-> TRUE, timestamp |-> f.val, data |-> d.data, why |-> ""]

\* Packet.parse_packet: (timestamp, data), or a ValueError (ok = FALSE) when
\* the line does not split in two at the tab, when the timestamp is no float
\* or is negative, or when the data does not decode
parse_packet(raw_data) ==
    LET parts == Split(raw_data, TAB)
    IN  IF Len(parts) # 2 THEN ParseError("split")
        ELSE LET f == float(parts[1])
                 d == b64decode(rstrip(parts[2]))
             IN  IF ~f.ok THEN ParseError("float")
                 ELSE IF f.val < 0 THEN ParseError("timestamp")
                 ELSE IF ~d.ok THEN ParseError("data")
                 ELSE [ok |-> TRUE, timestamp |-> f.val, data |-> d.data, why |-> ""]

\* file_format % (packet_time, packet_data), file_format = "%.10f\t%s\n"
file_format(packet_time, packet_data) ==
    FormatTimestamp(packet_time) \o <<TAB>> \o packet_data \o <<NL>>

\* the line the recorders write for a packet received at relative time t
EncodeRecord(t, payload) == file_format(t, b64encode(payload))

(***************************************************************************)
(* Files.  A file is its sequence of characters; a position is the number  *)
(* of characters before it.                                                *)
(***************************************************************************)
\* f.readline() at position pos: the characters up to and including the
\* next newline, or up to the end of the file
RECURSIVE ReadLineFrom(_, _)
ReadLineFrom(f, pos) ==
    IF pos >= Len(f) THEN <<>>
    ELSE IF f[pos + 1] = NL THEN <<NL>>
    ELSE <<f[pos + 1]>> \o ReadLineFrom(f, pos + 1)

\* the positions where a line of f starts: 0 and after every newline
LineStarts(f) == {pos \in 0..(Len(f) - 1) : pos = 0 \/ f[pos] = NL}

\* the lines `for line in f' yields from the start of f
Lines(f) ==
    LET starts == LineStarts(f)
        start(k) == CHOOSE pos \in starts : Cardinality({q \in starts : q < pos}) = k - 1
    IN  [k \in 1..Cardinality(starts) |-> ReadLineFrom(f, start(k))]

\* lines[lo] \o ... \o lines[hi]
RECURSIVE ConcatRange(_, _, _)
ConcatRange(lines, lo, hi) ==
    IF lo > hi THEN <<>>
    ELSE IF lo = hi THEN lines[lo]
    ELSE LET mid == (lo + hi) \div 2
         IN  ConcatRange(lines, lo, mid) \o ConcatRange(lines, mid + 1, hi)

Concat(lines) == ConcatRange(lines, 1, Len(lines))

IsPrefix(s, t) == Len(s) <= Len(t) /\ Take(t, Len(s)) = s

\* a value that may be None: <<>> is None, <<x>> is x
None == <<>>
Some(x) == <<x>>

(***************************************************************************)
(* State.                                                                  *)
(***************************************************************************)
VARIABLES
    \* the codec applied to one (timestamp, payload)
    c_pc, c_timestamp, c_payload, c_line, c_packet,
    \* the trace file and the clock time.time() reads
    file, now,
    \* the recorder loop
    r_impl, r_pc, max_packet_size, first_packet_time, r_arrivals,
    \* the state of the recorder object record() looks at, and how a call of
    \* Recorder.stop ended
    recorder_state, r_stop,
    \* the player loop: its arguments, its locals, the player's state flag,
    \* and what it has sent to the socket
    p_impl, p_pc, begin_time, end_time, p_pos, buf, first_packet_timestamp,
    next_play_time, last_play_time, player_state, sent, p_log,
    \* a seek: which one, its target, the position of the line iterator,
    \* the locals and the result
    s_impl, s_pc, target, s_pos, previous_position, s_result, s_calls,
    \* a controller object: its class, whether it was constructed, its
    \* __proc, the background tasks it has started and the calls made on it
    k_class, k_pc, proc, tasks, k_log,
    \* a second caller of start on the same controller, between its test of
    \* is_playing and its start of a process
    k_other

codecVars == <<c_pc, c_timestamp, c_payload, c_line, c_packet>>
recVars == <<r_impl, r_pc, max_packet_size, first_packet_time, r_arrivals,
            recorder_state, r_stop>>
playVars == <<p_impl, p_pc, begin_time, end_time, p_pos, buf, first_packet_timestamp,
              next_play_time, last_play_time, player_state, sent, p_log>>
seekVars == <<s_impl, s_pc, target, s_pos, previous_position, s_result, s_calls>>
ctlVars == <<k_class, k_pc, proc, tasks, k_log, k_other>>
vars == <<codecVars, file, now, recVars, playVars, seekVars, ctlVars>>

CodecIdle ==
    /\ c_pc = "idle" /\ c_timestamp = 0 /\ c_payload = <<>>
    /\ c_line = <<>> /\ c_packet = ParseError("")

RecIdle ==
    /\ r_impl = "none" /\ r_pc = "idle" /\ max_packet_size = 0
    /\ first_packet_time = None /\ r_arrivals = <<>>
    /\ recorder_state = "none" /\ r_stop = "idle"

PlayIdle ==
    /\ p_impl = "none" /\ p_pc = "idle" /\ begin_time = 0 /\ end_time = None
    /\ p_pos = 0 /\ buf = <<>> /\ first_packet_timestamp = None
    /\ next_play_time = None /\ last_play_time = None
    /\ player_state = "stopped" /\ sent = <<>> /\ p_log = <<>>

CtlIdle ==
    /\ k_class = "none" /\ k_pc = "idle" /\ proc = <<>> /\ tasks = <<>> /\ k_log = <<>>
    /\ k_other = "idle"

SeekIdle ==
    /\ s_impl = "none" /\ s_pc = "idle" /\ target = 0 /\ s_pos = 0
    /\ previous_position = 0 /\ s_result = 0 /\ s_calls = <<>>

(***************************************************************************)
(* The codec as a pure function: a recorder formats a line, parse_packet   *)
(* reads it back.                                                          *)
(***************************************************************************)
Stamps == (0..MaxStamp) \cup {100 * MaxStamp + 7}

CodecInit ==
    /\ c_pc = "input"
    /\ c_timestamp \in Stamps
    /\ c_payload \in Payloads
    /\ c_line = <<>>
    /\ c_packet = ParseError("")
    /\ file = <<>> /\ now = 0
    /\ RecIdle /\ PlayIdle /\ SeekIdle /\ CtlIdle

Encode ==
    /\ c_pc = "input"
    /\ c_line' = EncodeRecord(c_timestamp, c_payload)
    /\ c_pc' = "encoded"
    /\ UNCHANGED <<ctlVars, c_timestamp, c_payload, c_packet, file, now, recVars, playVars,
                   seekVars>>

Decode ==
    /\ c_pc = "encoded"
    /\ c_packet' = parse_packet(c_line)
    /\ c_pc' = "decoded"
    /\ UNCHANGED <<ctlVars, c_timestamp, c_payload, c_line, file, now, recVars, playVars,
                   seekVars>>

CodecNext == Encode \/ Decode

SpecCodec == CodecInit /\ [][CodecNext]_vars

\* C1: the line written for (timestamp, payload) parses back to exactly the
\* same timestamp and the same payload bytes, for every timestamp >= 0 and
\* every payload
C1_RoundTrip ==
    c_pc = "decoded" =>
        /\ c_packet.ok
        /\ c_packet.timestamp = c_timestamp
        /\ c_packet.data = c_payload

\* a payload holding a tab and a newline byte, under a two-digit timestamp,
\* has been encoded and decoded
C1_Witness ==
    /\ c_pc = "decoded"
    /\ c_timestamp = 12
    /\ c_payload = <<9, 10>>
    /\ Len(Split(c_line, TAB)) = 2

(***************************************************************************)
(* The recorder loops: UDPDump.__dump_loop (udpdump.py) and record         *)
(* (udptools.py).  One action is one iteration of the loop.                *)
(***************************************************************************)
\* datagrams a recording may receive
MaxDatagrams == 3
\* latest reading of the clock
MaxNow == 3

\* default of max_packet_size
DefaultMaxPacketSize == 16384

\* the datagrams on the wire
Datagrams == {<<65>>, <<9, 10, 255>>}

\* s.recv(max_packet_size): the datagram, cut to the buffer size
recv(datagram, bufsize) ==
    IF Len(datagram) > bufsize THEN Take(datagram, bufsize) ELSE datagram

\* a mutant of PacketTime: every packet is stamped with the clock reading
\* itself (the first packet is not the origin)
PacketTimeAbsolute(first, packet_recv_time) == packet_recv_time

\* packet_time: 0.0 for the first packet, the time since the first packet
\* for the others
PacketTime(first, packet_recv_time) ==
    IF first = None THEN 0 ELSE packet_recv_time - first[1]

\* a mutant of Write: the file is written from its start again
WriteRewound(f, text) == text

\* f.write(text) on a file opened with 'w': text goes to the end
Write(f, text) == f \o text

RecInit ==
    /\ r_impl \in {"udpdump", "udptools"}
    /\ r_pc = "loop"
    /\ max_packet_size \in {1, DefaultMaxPacketSize}
    /\ first_packet_time = None
    /\ r_arrivals = <<>>
    /\ recorder_state \in (IF r_impl = "udptools" THEN {"recording", "stopped"}
                           ELSE {"none"})
    /\ r_stop = (IF r_impl = "udptools" THEN "uncalled" ELSE "idle")
    /\ file = <<>>
    /\ now \in 0..MaxNow
    /\ CodecIdle /\ PlayIdle /\ SeekIdle /\ CtlIdle

\* one iteration of the `while 1' of UDPDump.__dump_loop: recv, read the
\* clock, encode, stamp, assert, write
dump_loop ==
    /\ r_impl = "udpdump" /\ r_pc = "loop"
    /\ Len(r_arrivals) < MaxDatagrams
    /\ \E datagram \in Datagrams :
        LET raw_packet == recv(datagram, max_packet_size)
            packet_recv_time == now
            packet_data == b64encode(raw_packet)
            packet_time == PacketTime(first_packet_time, packet_recv_time)
        IN  /\ r_arrivals' = Append(r_arrivals,
                                    [time |-> packet_recv_time, payload |-> raw_packet])
            /\ first_packet_time' =
                  IF first_packet_time = None THEN Some(packet_recv_time)
                  ELSE first_packet_time
            /\ IF packet_time >= 0
               THEN /\ file' = Write(file, file_format(packet_time, packet_data))
                    /\ r_pc' = "loop"
               ELSE \* assert packet_time >= 0.0 fails: the loop ends
                    /\ file' = file
                    /\ r_pc' = "raised"
    /\ UNCHANGED <<ctlVars, codecVars, now, r_impl, max_packet_size, recorder_state, r_stop,
                   playVars, seekVars>>

\* record of udptools.py: the test of `while recorder.state == RECORDING',
\* which ends the loop, or an iteration in which select reports the socket
\* readable: `time.time()' is evaluated with `time' bound to the function
\* time.time (from time import time), which raises AttributeError before
\* the recv.  (An iteration in which select times out changes nothing.)
record_loop ==
    /\ r_impl = "udptools" /\ r_pc = "loop"
    /\ r_pc' = IF recorder_state # "recording" THEN "done" ELSE "raised"
    /\ UNCHANGED <<ctlVars, codecVars, file, now, r_impl, max_packet_size,
                   first_packet_time, r_arrivals, recorder_state, r_stop, playVars,
                   seekVars>>

\* Recorder.stop while the loop runs: inside `with self.__lock' the
\* assignment `self.__state = STOPPED' reads a global name the module does
\* not define; the NameError leaves the state as it was and nothing is joined
Recorder_stop ==
    /\ r_impl = "udptools" /\ r_pc = "loop" /\ r_stop = "uncalled"
    /\ r_stop' = "NameError"
    /\ UNCHANGED <<ctlVars, codecVars, file, now, r_impl, r_pc, max_packet_size,
                   first_packet_time, r_arrivals, recorder_state, playVars, seekVars>>

\* time passes
RecTick ==
    /\ r_pc = "loop" /\ now < MaxNow
    /\ now' = now + 1
    /\ UNCHANGED <<ctlVars, codecVars, file, recVars, playVars, seekVars>>

\* the wall clock is set back
RecClockBack ==
    /\ r_pc = "loop" /\ now > 0
    /\ now' = now - 1
    /\ UNCHANGED <<ctlVars, codecVars, file, recVars, playVars, seekVars>>

RecNext == dump_loop \/ record_loop \/ Recorder_stop \/ RecTick \/ RecClockBack

SpecRec == RecInit /\ [][RecNext]_vars

\* the records of the trace, decoded
Records(f) == [i \in 1..Len(Lines(f)) |-> parse_packet(Lines(f)[i])]

ArrivalsSorted ==
    \A i \in 1..Len(r_arrivals), j \in 1..Len(r_arrivals) :
        i <= j => r_arrivals[i].time <= r_arrivals[j].time

RecordsMatchArrivals ==
    LET recs == Records(file)
    IN  /\ Len(recs) = Len(r_arrivals)
        /\ \A i \in 1..Len(recs) : recs[i].ok /\ recs[i].data = r_arrivals[i].payload

Returned(v, calls) == [raised |-> FALSE, value |-> v, calls |-> calls]
Raised(calls) == [raised |-> TRUE, value |-> 0, calls |-> calls]

\* a find_recursive that calls itself once more on the range it was given
find_recursive_again(fd, timestamp, start_pos, end_pos, calls) ==
    LET call == [start_pos |-> start_pos, end_pos |-> end_pos, skipped |-> 0]
    IN  Returned(-1, calls \o <<call, call>>)

\* find_recursive(fd, timestamp, start_pos, end_pos), end_pos already set to
\* the size of the file when it was None.  The result of a nested call that is
\* negative is replaced by the caller's own line start.
RECURSIVE find_recursive(_, _, _, _, _)
find_recursive(fd, timestamp, start_pos, end_pos, calls) ==
    LET middle_pos == (end_pos + start_pos) \div 2
        raw_skipped == ReadLineFrom(fd, middle_pos)
        here == middle_pos + Len(raw_skipped)
        made == Append(calls, [start_pos |-> start_pos, end_pos |-> end_pos,
                               skipped |-> Len(raw_skipped)])
        raw_line == ReadLineFrom(fd, here)
        line_timestamp == float(Split(raw_line, TAB)[1])
    IN  IF Len(raw_skipped) >= (end_pos - start_pos) \div 2 THEN Returned(-1, made)
        ELSE IF ~line_timestamp.ok THEN Raised(made)
        ELSE IF timestamp < line_timestamp.val THEN
            LET result == find_recursive(fd, timestamp, start_pos, here, made)
            IN  IF result.raised THEN result
                ELSE IF result.value < 0 THEN Returned(here, result.calls)
                ELSE result
        ELSE IF timestamp > line_timestamp.val THEN
            LET result == find_recursive(fd, timestamp, here, end_pos, made)
            IN  IF result.raised THEN result
                ELSE IF result.value < 0 THEN Returned(here, result.calls)
                ELSE result
        ELSE Returned(here, made)

\* UDPPlay.find_timestamp_position(dump_file, timestamp)
find_timestamp_position(dump_file, timestamp) ==
    find_recursive(dump_file, timestamp, 0, Len(dump_file), <<>>)

\* find_timestamp_smart(fname, timestamp): its first statement opens
\* os.path.abspath(f), and no `f' is bound there (the parameter is fname):
\* NameError.  (Past that, the function ends without a return statement.)
find_timestamp_smart(fname, timestamp) == Raised(<<>>)

(***************************************************************************)
(* The player loops: UDPPlay.__play_loop (udpplay.py) and play             *)
(* (udptools.py).  One action is the seek, one iteration of `for line in   *)
(* f', or the code after the loop.                                         *)
(***************************************************************************)
\* capacity of the playback buffer
buflen == 100

\* lines of a generated trace
MaxLines == 2

\* the traces played: the four records at 0.0, 1.0, 2.0, 3.0; a corrupt line
\* between two records; every trace of up to MaxLines lines of LinePool; and
\* two long traces, one record more than one buffer and than two buffers
Record(t, payload) == [timestamp |-> t, data |-> payload]

Trace(records) ==
    Concat([i \in 1..Len(records) |->
                EncodeRecord(records[i].timestamp, records[i].data)])

ExampleTrace ==
    Trace(<<Record(0, <<1>>), Record(10, <<2>>), Record(20, <<3>>), Record(30, <<4>>)>>)

\* a line with no tab, and a line whose data has incorrect base64 padding
NoTabLine == <<"o", "o", "p", "s", NL>>
BadDataLine == FormatTimestamp(10) \o <<TAB, "Q", NL>>

CorruptTrace ==
    EncodeRecord(0, <<1>>) \o NoTabLine \o EncodeRecord(10, <<2>>)

LinePool ==
    {EncodeRecord(0, <<5>>), EncodeRecord(20, <<6>>), NoTabLine, BadDataLine}

GeneratedTraces == {Concat(ls) : ls \in SeqsUpTo(LinePool, MaxLines)}

\* n records, fifty to the tenth of a second, the i-th with payload <<i % 256>>
LongTrace(n) == Trace([i \in 1..n |-> Record((i - 1) \div 50, <<i % 256>>)])

PlayTraces ==
    {ExampleTrace, CorruptTrace, LongTrace(buflen + 1), LongTrace(2 * buflen + 1)}
        \cup GeneratedTraces

BeginTimes == {0, 10}
EndTimes == {None, Some(20), Some(25)}

PlayInit ==
    /\ p_impl \in {"udpplay", "udptools"}
    /\ p_pc = "start"
    /\ file \in PlayTraces
    /\ begin_time \in BeginTimes
    /\ end_time \in EndTimes
    /\ p_pos = 0
    /\ buf = <<>>
    /\ first_packet_timestamp = None
    /\ next_play_time = None
    /\ last_play_time = None
    /\ player_state = "playing"
    /\ sent = <<>>
    /\ p_log = <<>>
    /\ now = 0
    /\ CodecIdle /\ RecIdle /\ SeekIdle /\ CtlIdle

\* an entry of p_log: a full batch sent ("batch"), the rest of the buffer sent
\* after the loop ("tail"), or the stop signal observed ("stop"); size is the
\* number of payloads sent (for "stop": sent so far), time the clock reading,
\* slept the time slept before sending, span the buffer_time
LogEntry(kind, size, time, slept, span) ==
    [kind |-> kind, size |-> size, time |-> time, slept |-> slept, span |-> span]

DataOf(packets) == [i \in 1..Len(packets) |-> packets[i].data]

\* time.sleep(secs) returns after secs; a negative secs is an IOError
\* (Invalid argument) in Python 2
SleepRaises(secs) == secs < 0

\* the end_time test of UDPPlay.__play_loop
UDPPlayPastEnd(packet_timestamp) ==
    end_time # None /\ packet_timestamp > end_time[1]

\* the end_time test of play
PastEnd(packet_timestamp) ==
    end_time # None /\ packet_timestamp >= end_time[1]

\* buffer_time, from the timestamp of the last record of the buffer being
\* sent and that of its first; BufferTimeOfLast forgets the first
BufferTimeOfLast(first, last) == last

BufferTime(first, last) == last - first

\* play: the seek before the loop.  begin_time > 0 calls
\* find_timestamp_smart, which raises
play_seek ==
    /\ p_impl = "udptools" /\ p_pc = "start"
    /\ IF begin_time > 0
       THEN LET start_byte == find_timestamp_smart(file, begin_time)
            IN  IF start_byte.raised THEN p_pc' = "raised" /\ p_pos' = p_pos
                ELSE p_pc' = "loop" /\ p_pos' = start_byte.value
       ELSE p_pc' = "loop" /\ p_pos' = p_pos
    /\ UNCHANGED <<ctlVars, codecVars, file, now, recVars, p_impl, begin_time, end_time, buf,
                   first_packet_timestamp, next_play_time, last_play_time,
                   player_state, sent, p_log,
                   seekVars>>

\* play: one iteration of `for line in f' (lines 46-93)
play ==
    /\ p_impl = "udptools" /\ p_pc = "loop"
    /\ IF p_pos >= Len(file) THEN
            \* the file is exhausted: the loop ends
            /\ p_pc' = "after"
            /\ UNCHANGED <<now, p_pos, buf, next_play_time, last_play_time, sent, p_log>>
       ELSE LET line == ReadLineFrom(file, p_pos)
                packet == parse_packet(line)
                filled == Append(buf, Record(packet.timestamp, packet.data))
                buffer_time == BufferTime(filled[1].timestamp, filled[Len(filled)].timestamp)
            IN  /\ p_pos' = p_pos + Len(line)
                /\ IF player_state = "stopped" THEN
                        \* a stop has been signaled: break
                        /\ p_pc' = "after"
                        /\ p_log' = Append(p_log, LogEntry("stop", Len(sent), now, 0, 0))
                        /\ UNCHANGED <<now, buf, next_play_time, last_play_time, sent>>
                   ELSE IF ~packet.ok THEN
                        \* ValueError: the line is skipped
                        /\ UNCHANGED <<now, p_pc, buf, next_play_time, last_play_time,
                                       sent, p_log>>
                   ELSE IF PastEnd(packet.timestamp) THEN
                        /\ p_pc' = "after"
                        /\ UNCHANGED <<now, buf, next_play_time, last_play_time, sent, p_log>>
                   ELSE IF Len(filled) < buflen THEN
                        /\ buf' = filled
                        /\ UNCHANGED <<now, p_pc, next_play_time, last_play_time, sent, p_log>>
                   ELSE IF next_play_time # None /\ next_play_time[1] - now > 0 THEN
                        \* sleep(sleep_time): sleep_time is not defined, NameError
                        /\ p_pc' = "raised"
                        /\ buf' = filled
                        /\ UNCHANGED <<now, next_play_time, last_play_time, sent, p_log>>
                   ELSE
                        /\ last_play_time' = Some(now)
                        /\ sent' = sent \o DataOf(filled)
                        /\ next_play_time' = Some(now + buffer_time)
                        /\ buf' = <<>>
                        /\ p_log' = Append(p_log,
                               LogEntry("batch", Len(filled), now, 0, buffer_time))
                        /\ UNCHANGED <<now, p_pc>>
    /\ UNCHANGED <<ctlVars, codecVars, file, recVars, p_impl, begin_time, end_time,
                   first_packet_timestamp, player_state,
                   seekVars>>

\* the code after the loop, the same in play (lines 95-102) and in
\* UDPPlay.__play_loop (lines 143-150): sleep until next_play_time if it is
\* set, then send what is left in the buffer
play_rest ==
    /\ p_pc = "after"
    /\ LET secs == IF next_play_time = None THEN 0 ELSE next_play_time[1] - now
           payloads == IF p_impl = "udptools" THEN DataOf(buf) ELSE buf
       IN  IF next_play_time # None /\ SleepRaises(secs) THEN
                /\ p_pc' = "sleep_raised"
                /\ UNCHANGED <<now, sent, p_log>>
           ELSE /\ now' = now + secs
                /\ sent' = sent \o payloads
                /\ p_log' = Append(p_log, LogEntry("tail", Len(buf), now + secs, secs, 0))
                /\ p_pc' = "done"
    /\ UNCHANGED <<ctlVars, codecVars, file, recVars, p_impl, begin_time, end_time, p_pos, buf,
                   first_packet_timestamp, next_play_time, last_play_time, player_state,
                   seekVars>>

\* UDPPlay.__play_loop: the seek before the loop (lines 73-85).  A negative
\* start_position makes f.seek raise IOError
UDPPlay_seek ==
    /\ p_impl = "udpplay" /\ p_pc = "start"
    /\ IF begin_time > 0
       THEN LET start_position == find_timestamp_position(file, begin_time)
            IN  IF start_position.raised \/ start_position.value < 0
                THEN p_pc' = "raised" /\ p_pos' = p_pos
                ELSE p_pc' = "loop" /\ p_pos' = start_position.value
       ELSE p_pc' = "loop" /\ p_pos' = p_pos
    /\ UNCHANGED <<ctlVars, codecVars, file, now, recVars, p_impl, begin_time, end_time, buf,
                   first_packet_timestamp, next_play_time, last_play_time,
                   player_state, sent, p_log,
                   seekVars>>

\* UDPPlay.__play_loop: one iteration of `for line in f' (lines 90-141).
\* Nothing catches what float, line_parts[1] or b64decode raise.
UDPPlay_play_loop ==
    /\ p_impl = "udpplay" /\ p_pc = "loop"
    /\ IF p_pos >= Len(file) THEN
            /\ p_pc' = "after"
            /\ UNCHANGED <<now, p_pos, buf, first_packet_timestamp, next_play_time,
                           last_play_time, sent, p_log>>
       ELSE LET line == ReadLineFrom(file, p_pos)
                line_parts == Split(line, TAB)
                packet_timestamp == float(line_parts[1])
                packet_data == b64decode(rstrip(line_parts[2]))
                filled == Append(buf, packet_data.data)
                first == IF Len(filled) = 1 THEN Some(packet_timestamp.val)
                         ELSE first_packet_timestamp
                buffer_time == BufferTime(first_packet_timestamp[1], packet_timestamp.val)
                sleep_time == IF next_play_time = None THEN 0
                              ELSE next_play_time[1] - now
                slept == IF sleep_time > 0 THEN sleep_time ELSE 0
            IN  /\ p_pos' = p_pos + Len(line)
                /\ IF ~packet_timestamp.ok \/ Len(line_parts) < 2 \/ ~packet_data.ok THEN
                        \* ValueError, IndexError or TypeError ends the loop
                        /\ p_pc' = "raised"
                        /\ UNCHANGED <<now, buf, first_packet_timestamp, next_play_time,
                                       last_play_time, sent, p_log>>
                   ELSE IF UDPPlayPastEnd(packet_timestamp.val) THEN
                        /\ p_pc' = "after"
                        /\ UNCHANGED <<now, buf, first_packet_timestamp, next_play_time,
                                       last_play_time, sent, p_log>>
                   ELSE IF Len(filled) < buflen - 1 THEN
                        /\ buf' = filled
                        /\ first_packet_timestamp' = first
                        /\ UNCHANGED <<now, p_pc, next_play_time, last_play_time, sent, p_log>>
                   ELSE
                        /\ now' = now + slept
                        /\ last_play_time' = Some(now + slept)
                        /\ sent' = sent \o filled
                        /\ next_play_time' = Some(now + slept + buffer_time)
                        /\ buf' = <<>>
                        /\ p_log' = Append(p_log,
                               LogEntry("batch", Len(filled), now + slept, slept, buffer_time))
                        /\ UNCHANGED <<p_pc, first_packet_timestamp>>
    /\ UNCHANGED <<ctlVars, codecVars, file, recVars, p_impl, begin_time, end_time, player_state,
                   seekVars>>

\* Player.stop sets the state play looks at to STOPPED
signal_stop ==
    /\ p_impl = "udptools" /\ p_pc \in {"start", "loop"}
    /\ player_state = "playing"
    /\ player_state' = "stopped"
    /\ UNCHANGED <<ctlVars, codecVars, file, now, recVars, p_impl, p_pc, begin_time, end_time, p_pos,
                   buf, first_packet_timestamp, next_play_time, last_play_time, sent, p_log,
                   seekVars>>

\* UDPPlay.stop terminates the process that runs the loop
terminate ==
    /\ p_impl = "udpplay" /\ p_pc \in {"start", "loop", "after"}
    /\ p_pc' = "terminated"
    /\ p_log' = Append(p_log, LogEntry("stop", Len(sent), now, 0, 0))
    /\ UNCHANGED <<ctlVars, codecVars, file, now, recVars, p_impl, begin_time, end_time, p_pos, buf,
                   first_packet_timestamp, next_play_time, last_play_time, player_state,
                   sent,
                   seekVars>>

\* time passes while the loop runs
PlayTick ==
    /\ p_pc \in {"loop", "after"} /\ now < MaxNow
    /\ now' = now + 1
    /\ UNCHANGED <<ctlVars, codecVars, file, recVars, playVars, seekVars>>

PlayNext ==
    \/ play_seek \/ play \/ play_rest
    \/ UDPPlay_seek \/ UDPPlay_play_loop
    \/ signal_stop \/ terminate \/ PlayTick

SpecPlay == PlayInit /\ [][PlayNext]_vars

(***************************************************************************)
(* What a trace holds, for the statements about playback.                  *)
(***************************************************************************)
IsWellFormed(line) == parse_packet(line).ok

\* the payloads of the well-formed records among lines, in order
WellFormedData(lines) ==
    LET good == SelectSeq(lines, IsWellFormed)
    IN  [i \in 1..Len(good) |-> parse_packet(good[i]).data]

\* the index of the first line for which Test holds, Len(lines) + 1 if none
FirstIndex(lines, Test(_)) ==
    LET hits == {i \in 1..Len(lines) : Test(lines[i])}
    IN  IF hits = {} THEN Len(lines) + 1
        ELSE CHOOSE i \in hits : \A j \in hits : i <= j

\* the lines before the first record whose timestamp is greater than e
UntilPast(lines, e) ==
    LET Past(line) == parse_packet(line).ok /\ parse_packet(line).timestamp > e
    IN  Take(lines, FirstIndex(lines, Past) - 1)

\* the lines from the first record whose timestamp is at least b
FromFirstAtLeast(lines, b) ==
    LET AtLeast(line) == parse_packet(line).ok /\ parse_packet(line).timestamp >= b
    IN  Drop(lines, FirstIndex(lines, AtLeast) - 1)

UntilEnd(lines) == IF end_time = None THEN lines ELSE UntilPast(lines, end_time[1])

\* every line is a well-formed record and the timestamps never decrease
WellFormedSorted(f) ==
    LET recs == Records(f)
    IN  /\ \A i \in 1..Len(recs) : recs[i].ok
        /\ \A i \in 1..(Len(recs) - 1) : recs[i].timestamp <= recs[i + 1].timestamp

\* no stop was signaled and the process was not terminated
NotStopped == player_state = "playing" /\ p_pc # "terminated"

\* C4: playback that runs to the end of the trace (no stop, begin_time = 0,
\* no end_time) has sent the payload of every well-formed record, once each,
\* in file order, the records of the last partial batch included
C4_AllSentInFileOrder ==
    (/\ p_pc \in {"done", "sleep_raised"}
     /\ NotStopped /\ begin_time = 0 /\ end_time = None)
        => sent = WellFormedData(Lines(file))

\* C5: with end_time set, playback stops before the first record whose
\* timestamp is greater than end_time: nothing at or after that record is
\* sent, and the records before it, one stamped end_time included, are sent
C5_StopsAtFirstPastEnd ==
    (end_time # None /\ begin_time = 0) =>
        /\ p_pc = "after" => IsPrefix(sent, WellFormedData(UntilEnd(Lines(file))))
        /\ (p_pc = "done" /\ NotStopped) => sent = WellFormedData(UntilEnd(Lines(file)))

\* C6: with begin_time > 0, on a trace whose timestamps never decrease,
\* playback sends the records from the first one stamped begin_time or later
\* (up to end_time), and no earlier record
C6_StartsAtBeginTime ==
    (/\ p_pc \in {"done", "raised", "sleep_raised"}
     /\ begin_time > 0 /\ NotStopped /\ WellFormedSorted(file))
        => sent = WellFormedData(UntilEnd(FromFirstAtLeast(Lines(file), begin_time)))

\* C7: a malformed record is skipped and playback goes on: on a trace shorter
\* than a batch, played from its start to its end, every well-formed record
\* is sent and the loop does not end on an error
C7_MalformedSkipped ==
    (/\ p_pc \in {"done", "raised"}
     /\ begin_time = 0 /\ end_time = None /\ NotStopped
     /\ Len(Lines(file)) < buflen - 1)
        => /\ p_pc # "raised"
           /\ sent = WellFormedData(Lines(file))

\* C8: once the loop has observed the stop signal nothing more is sent
C8_NothingSentAfterStop ==
    \A i \in 1..Len(p_log) : p_log[i].kind = "stop" => Len(sent) = p_log[i].size

(***************************************************************************)
(* The seeks on their own: find_timestamp (udptools.py), one action per    *)
(* iteration of its loop, and UDPPlay.find_timestamp_position.             *)
(***************************************************************************)
\* lines of a trace searched
MaxSeekLines == 3

SeekPool ==
    {EncodeRecord(0, <<>>), EncodeRecord(10, <<1>>), EncodeRecord(20, <<2, 2, 2, 2>>),
     EncodeRecord(30, <<3>>), NoTabLine}

SeekTraces ==
    {Concat(ls) : ls \in SeqsUpTo(SeekPool, MaxSeekLines)}
        \cup {ExampleTrace, LongTrace(buflen + 1)}

Targets == {-10, 0, 5, 10, 15, 20, 30, 1000}

SeekInit ==
    /\ s_impl \in {"find_timestamp", "find_timestamp_position"}
    /\ s_pc = "call"
    /\ file \in SeekTraces
    /\ target \in Targets
    /\ s_pos = 0
    /\ previous_position = 0
    /\ s_result = 0
    /\ s_calls = <<>>
    /\ now = 0
    /\ CodecIdle /\ RecIdle /\ PlayIdle /\ CtlIdle

\* df.tell() inside `for line in df': the iterator of a Python 2 file reads
\* ahead through a buffer of its own and tell() does not account for it, so
\* the value is the position the read-ahead has reached, not the end of the
\* line just yielded.  The traces of the model are shorter than one buffer:
\* the read-ahead has reached the end of the file.  A file object that reads no
\* further than the line reports the end of the line.
Tell(f, line_end) == {line_end, Len(f)}

\* find_timestamp: one iteration of `for line in df', or the return after it
find_timestamp ==
    /\ s_impl = "find_timestamp" /\ s_pc = "call"
    /\ IF s_pos >= Len(file) THEN
            /\ s_pc' = "returned" /\ s_result' = previous_position
            /\ UNCHANGED <<s_pos, previous_position>>
       ELSE LET line == ReadLineFrom(file, s_pos)
                packet == parse_packet(line)
            IN  /\ s_pos' = s_pos + Len(line)
                /\ IF ~packet.ok \/ packet.timestamp >= target THEN
                        \* break: a ValueError, or the timestamp is reached
                        /\ s_pc' = "returned" /\ s_result' = previous_position
                        /\ UNCHANGED previous_position
                   ELSE /\ previous_position' \in Tell(file, s_pos + Len(line))
                        /\ UNCHANGED <<s_pc, s_result>>
    /\ UNCHANGED <<ctlVars, codecVars, file, now, recVars, playVars, s_impl, target, s_calls>>

\* UDPPlay.find_timestamp_position: the whole recursion
find_position ==
    /\ s_impl = "find_timestamp_position" /\ s_pc = "call"
    /\ LET found == find_timestamp_position(file, target)
       IN  /\ s_pc' = IF found.raised THEN "raised" ELSE "returned"
           /\ s_result' = found.value
           /\ s_calls' = found.calls
    /\ UNCHANGED <<ctlVars, codecVars, file, now, recVars, playVars, s_impl, target, s_pos,
                   previous_position>>

SeekNext == find_timestamp \/ find_position

SpecSeek == SeekInit /\ [][SeekNext]_vars

\* the offset of the first record of f whose timestamp is at least t; the
\* size of f when there is none
FirstAtLeastOffset(f, t) ==
    LET lines == Lines(f)
        AtLeast(line) == parse_packet(line).ok /\ parse_packet(line).timestamp >= t
    IN  Len(Concat(Take(lines, FirstIndex(lines, AtLeast) - 1)))

AllWellFormed(f) == \A i \in 1..Len(Lines(f)) : IsWellFormed(Lines(f)[i])

\* a position of f at the start of a line: 0, or just after a newline
LineAligned(f, pos) == pos \in 0..Len(f) /\ (pos = 0 \/ f[pos] = NL)

\* C9: on a well-formed trace find_timestamp returns the offset of the start
\* of the first record whose timestamp is >= the target: 0 when the target is
\* at most the first timestamp, the size of the file when no record qualifies
C9_LinearSeekOffset ==
    (s_impl = "find_timestamp" /\ s_pc = "returned" /\ AllWellFormed(file))
        => s_result = FirstAtLeastOffset(file, target)

\* C10: what find_timestamp_position returns is an offset between 0 and the
\* size of the file at the start of a record, never inside a line and never
\* a sentinel such as -1
C10_BinarySeekAligned ==
    (s_impl = "find_timestamp_position" /\ s_pc = "returned")
        => LineAligned(file, s_result)

\* C11: on a non-empty well-formed trace with non-decreasing timestamps
\* find_timestamp_position raises nothing and returns what the linear seek
\* is to return: the offset of the first record whose timestamp is >= the
\* target, 0 for a target at or below the first timestamp, the size of the
\* file for a target above every timestamp
C11_BinaryMatchesLinear ==
    (/\ s_impl = "find_timestamp_position" /\ s_pc \in {"returned", "raised"}
     /\ file # <<>> /\ WellFormedSorted(file))
        => s_pc = "returned" /\ s_result = FirstAtLeastOffset(file, target)

\* C12: on a trace of zero records both seeks return offset 0, whatever the
\* target
C12_EmptyTraceSeeksToZero ==
    (file = <<>> /\ s_pc \in {"returned", "raised"})
        => s_pc = "returned" /\ s_result = 0

\* the first line of f at which the linear scan is to stop for target t: the
\* first line that is malformed or whose timestamp is at least t
ScanStop(f, t) ==
    LET Stops(line) == ~parse_packet(line).ok \/ parse_packet(line).timestamp >= t
    IN  FirstIndex(Lines(f), Stops)

\* a malformed record of f precedes every record whose timestamp is >= t
MalformedFirst(f, t) ==
    /\ ScanStop(f, t) <= Len(Lines(f))
    /\ ~IsWellFormed(Lines(f)[ScanStop(f, t)])

\* C13: when a malformed record precedes every record with timestamp >= the
\* target, find_timestamp raises nothing and returns the offset of the start
\* of that malformed record
C13_MalformedEndsScan ==
    (/\ s_impl = "find_timestamp" /\ s_pc \in {"returned", "raised"}
     /\ MalformedFirst(file, target))
        => /\ s_pc = "returned"
           /\ s_result = Len(Concat(Take(Lines(file), ScanStop(file, target) - 1)))

(***************************************************************************)
(* The controllers: UDPPlay and UDPDump, which run their loop in a         *)
(* multiprocessing.Process, and Player and Recorder of udptools.py.  One   *)
(* object of one class, the calls made on it, and the tasks it started.    *)
(***************************************************************************)
\* background tasks one controller starts, and calls made on it
MaxTasks == 2
MaxCalls == 5

Classes == {"UDPPlay", "UDPDump", "Player", "Recorder"}

CtlInit ==
    /\ k_class \in Classes
    /\ k_pc = "new"
    /\ proc = None
    /\ tasks = <<>>
    /\ k_log = <<>>
    /\ k_other = "idle"
    /\ file = <<>>
    /\ now = 0
    /\ CodecIdle /\ RecIdle /\ PlayIdle /\ SeekIdle

\* the call op ended with exception exc ("none": it returned); running says
\* whether the task of __proc was alive when the call was made, before and
\* after are __proc, alive says whether that task is alive at the end
Call(op, exc, running, before, after, alive) ==
    [op |-> op, exc |-> exc, running |-> running, before |-> before, after |-> after,
     alive |-> alive]

\* Process.is_alive of task t
is_alive(ts, t) == ts[t].status = "alive"

\* UDPPlay.is_playing, UDPDump.is_running
is_running == proc # None /\ is_alive(tasks, proc[1])

\* __init__ of UDPPlay and of UDPDump: self.__proc = None
UDPPlay_init ==
    /\ k_class = "UDPPlay" /\ k_pc = "new"
    /\ k_pc' = "made"
    /\ proc' = None
    /\ k_log' = Append(k_log, Call("init", "none", FALSE, None, None, FALSE))
    /\ UNCHANGED <<codecVars, file, now, recVars, playVars, seekVars, k_other, k_class, tasks>>

UDPDump_init ==
    /\ k_class = "UDPDump" /\ k_pc = "new"
    /\ k_pc' = "made"
    /\ proc' = None
    /\ k_log' = Append(k_log, Call("init", "none", FALSE, None, None, FALSE))
    /\ UNCHANGED <<codecVars, file, now, recVars, playVars, seekVars, k_other, k_class, tasks>>

\* Player.__init__ and Recorder.__init__: `self.__state = STOPPED' reads a
\* global name the module does not define; the NameError leaves the caller
\* without an object
Player_init ==
    /\ k_class = "Player" /\ k_pc = "new"
    /\ k_pc' = "init_raised"
    /\ k_log' = Append(k_log, Call("init", "NameError", FALSE, None, None, FALSE))
    /\ UNCHANGED <<codecVars, file, now, recVars, playVars, seekVars, k_other, k_class, proc, tasks>>

Recorder_init ==
    /\ k_class = "Recorder" /\ k_pc = "new"
    /\ k_pc' = "init_raised"
    /\ k_log' = Append(k_log, Call("init", "NameError", FALSE, None, None, FALSE))
    /\ UNCHANGED <<codecVars, file, now, recVars, playVars, seekVars, k_other, k_class, proc, tasks>>

\* a process just started: alive, its loop has not yet opened the socket
NewTask == [status |-> "alive", sock |-> "none"]

\* the start of UDPPlay.play and UDPDump.dump: raise error when a task is
\* alive, else put a new Process in __proc and start it
Start(error) ==
    /\ k_pc = "made" /\ Len(k_log) < MaxCalls
    /\ IF is_running THEN
            /\ k_log' = Append(k_log, Call("start", error, TRUE, proc, proc, TRUE))
            /\ UNCHANGED <<proc, tasks>>
       ELSE /\ Len(tasks) < MaxTasks
            /\ tasks' = Append(tasks, NewTask)
            /\ proc' = Some(Len(tasks) + 1)
            /\ k_log' = Append(k_log, Call("start", "none", FALSE, proc,
                                           Some(Len(tasks) + 1), TRUE))
    /\ UNCHANGED <<codecVars, file, now, recVars, playVars, seekVars, k_other, k_class, k_pc>>

UDPPlay_play == k_class = "UDPPlay" /\ Start("AlreadyPlayingError")

UDPDump_dump == k_class = "UDPDump" /\ Start("AlreadyRunningError")

\* the end of a process: whatever socket it had open is closed with it
Ended(task, how) ==
    [status |-> how, sock |-> IF task.sock = "open" THEN "closed" ELSE task.sock]

\* Process.terminate and Process.join of the task of __proc, when alive
Terminated ==
    IF is_running THEN [tasks EXCEPT ![proc[1]] = Ended(@, "terminated")] ELSE tasks

\* UDPPlay.stop: terminate when playing, join when there is a process
UDPPlay_stop ==
    /\ k_class = "UDPPlay"
    /\ k_pc = "made" /\ Len(k_log) < MaxCalls
    /\ tasks' = Terminated
    /\ k_log' = Append(k_log, Call("stop", "none", is_running, proc, proc, FALSE))
    /\ UNCHANGED <<codecVars, file, now, recVars, playVars, seekVars, k_other, k_class, k_pc, proc>>

\* UDPDump.stop: the same, then `assert not self.__proc.isalive()': neither a
\* Process nor None has an attribute isalive
UDPDump_stop ==
    /\ k_class = "UDPDump"
    /\ k_pc = "made" /\ Len(k_log) < MaxCalls
    /\ tasks' = Terminated
    /\ k_log' = Append(k_log, Call("stop", "AttributeError", is_running, proc, proc, FALSE))
    /\ UNCHANGED <<codecVars, file, now, recVars, playVars, seekVars, k_other, k_class, k_pc, proc>>

\* the loop of a started process creates its socket
loop_starts ==
    /\ \E t \in 1..Len(tasks) :
            /\ is_alive(tasks, t) /\ tasks[t].sock = "none"
            /\ tasks' = [tasks EXCEPT ![t].sock = "open"]
    /\ UNCHANGED <<codecVars, file, now, recVars, playVars, seekVars, k_other, k_class, k_pc, proc, k_log>>

\* the loop of a process ends by itself: __play_loop at the end of the file
\* or at end_time, either loop with an exception; the process exits
loop_ends ==
    /\ \E t \in 1..Len(tasks) :
            /\ is_alive(tasks, t)
            /\ tasks' = [tasks EXCEPT ![t] = Ended(@, "exited")]
    /\ UNCHANGED <<codecVars, file, now, recVars, playVars, seekVars, k_other, k_class, k_pc, proc, k_log>>

\* a second caller of UDPPlay.play or UDPDump.dump, running beside the
\* calls above: nothing makes the test of is_playing and the start of the
\* process one step.  First the test, which finds nothing running
concurrent_check ==
    /\ k_pc = "made" /\ k_other = "idle"
    /\ ~is_running
    /\ k_other' = "checked"
    /\ UNCHANGED <<codecVars, file, now, recVars, playVars, seekVars, k_class, k_pc, proc,
                   tasks, k_log>>

\* then the new Process is put in __proc and started, whatever has been
\* started since the test
concurrent_start ==
    /\ k_pc = "made" /\ k_other = "checked"
    /\ Len(tasks) < MaxTasks /\ Len(k_log) < MaxCalls
    /\ tasks' = Append(tasks, NewTask)
    /\ proc' = Some(Len(tasks) + 1)
    /\ k_log' = Append(k_log, Call("start", "none", FALSE, proc, Some(Len(tasks) + 1), TRUE))
    /\ k_other' = "done"
    /\ UNCHANGED <<codecVars, file, now, recVars, playVars, seekVars, k_class, k_pc>>

CtlNext ==
    \/ UDPPlay_init \/ UDPDump_init \/ Player_init \/ Recorder_init
    \/ UDPPlay_play \/ UDPDump_dump
    \/ concurrent_check \/ concurrent_start
    \/ UDPPlay_stop \/ UDPDump_stop
    \/ loop_starts \/ loop_ends

SpecCtl == CtlInit /\ [][CtlNext]_vars

(***************************************************************************)
(* Statements about the controllers                                        *)
(***************************************************************************)
\* the controller object exists: its constructor returned
Constructed == k_pc # "init_raised"

AlreadyActive == {"AlreadyPlayingError", "AlreadyRunningError"}

StartsWhileRunning == {i \in 1..Len(k_log) : k_log[i].op = "start" /\ k_log[i].running}

\* C14: each of UDPPlay, UDPDump, Player and Recorder gives a controller,
\* and a start called on it while the task of an earlier start is alive
\* raises the already-active error, with __proc and that task left as they
\* were
C14_SecondStartRefused ==
    /\ Constructed
    /\ \A i \in StartsWhileRunning :
            /\ k_log[i].exc \in AlreadyActive
            /\ k_log[i].after = k_log[i].before
            /\ k_log[i].alive

Succeeded(i, op) == k_log[i].op = op /\ k_log[i].exc = "none"

\* a start has succeeded and no stop has succeeded since
SessionOpen ==
    \E i \in 1..Len(k_log) :
        /\ Succeeded(i, "start")
        /\ \A j \in (i + 1)..Len(k_log) : ~Succeeded(j, "stop")

\* C15: in every state after a successful start and before the next
\* successful stop is_running() is true
C15_RunningWhileStarted == SessionOpen => is_running

\* C16: a stop called when no task is alive (never started, or stopped
\* already) raises nothing and changes nothing
C16_StopIdempotent ==
    \A i \in 1..Len(k_log) :
        (k_log[i].op = "stop" /\ ~k_log[i].running)
            => k_log[i].exc = "none" /\ k_log[i].after = k_log[i].before

\* C17: each controller class gives a controller; after a successful stop
\* no task is alive, and a start that follows succeeds with a new task
C17_ReusableAfterStop ==
    /\ Constructed
    /\ \A i \in 1..Len(k_log) :
            Succeeded(i, "stop") =>
                /\ ~k_log[i].alive
                /\ (i < Len(k_log) /\ k_log[i + 1].op = "start") =>
                        /\ k_log[i + 1].exc = "none"
                        /\ k_log[i + 1].after # k_log[i + 1].before

\* C18: each controller class gives a controller; a stop of a running
\* session returns normally only when the task has ended, and ends with the
\* stop-timeout error (IOError) when the task is still alive
C18_StopWaitsBounded ==
    /\ Constructed
    /\ \A i \in 1..Len(k_log) :
            (k_log[i].op = "stop" /\ k_log[i].running) =>
                /\ k_log[i].exc = "none" => ~k_log[i].alive
                /\ k_log[i].alive => k_log[i].exc = "IOError"

\* the task of __proc has ended by itself
EndedByItself == proc # None /\ tasks[proc[1]].status = "exited"

\* C19: each controller class gives a controller; once its loop has ended
\* without a stop is_running is false, and a start made then is accepted
C19_NaturalEndStops ==
    /\ Constructed
    /\ EndedByItself => ~is_running
    /\ \A i \in 1..Len(k_log) :
            (k_log[i].op = "start" /\ ~k_log[i].running) => k_log[i].exc = "none"

\* C20: each controller class gives a controller, and the socket of every
\* session that was stopped or whose loop has ended is closed
C20_SocketReleased ==
    /\ Constructed
    /\ \A t \in 1..Len(tasks) : ~is_alive(tasks, t) => tasks[t].sock # "open"

(***************************************************************************)
(* Statements about the batches of the player loops (SpecPlay)             *)
(***************************************************************************)
Batches == {i \in 1..Len(p_log) : p_log[i].kind = "batch"}

\* C21: a timed batch is sent when the buffer reaches 100 records: every
\* full batch sent holds exactly 100 records and the buffer never holds more
\* than 100
C21_BatchOfHundred ==
    /\ Len(buf) <= buflen
    /\ \A i \in Batches : p_log[i].size = buflen

\* C22: the player never sleeps a negative duration, and no batch after the
\* first, full or trailing, is sent before the next_play_time computed from
\* the batch before it
C22_NoNegativeSleep ==
    /\ p_pc # "sleep_raised"
    /\ \A i \in 1..Len(p_log) :
            /\ p_log[i].slept >= 0
            /\ p_log[i].kind \in {"batch", "tail"} =>
                    \A j \in Batches :
                        j < i => p_log[i].time >= p_log[j].time + p_log[j].span

\* a full batch has just been sent and the loop goes on
BatchJustSent ==
    /\ p_pc = "loop" /\ buf = <<>>
    /\ p_log # <<>> /\ p_log[Len(p_log)].kind = "batch"

\* the lines of each trace played, parsed, each with the offset of its end
ParsedTraces ==
    [f \in PlayTraces |->
        LET ls == Lines(f)
        IN  [i \in 1..Len(ls) |->
                [packet |-> parse_packet(ls[i]), end |-> Len(Concat(Take(ls, i)))]]]

\* the records read so far that went into a buffer: the well-formed lines
\* of the file before the position of the loop
RecordsRead ==
    LET Read(l) == l.packet.ok /\ l.end <= p_pos
    IN  SelectSeq(ParsedTraces[file], Read)

\* the timestamp of the last record of the batch just sent minus that of the
\* first record of the same batch
SpanOfLastBatch ==
    LET n == Len(RecordsRead)
        size == p_log[Len(p_log)].size
    IN  RecordsRead[n].packet.timestamp - RecordsRead[n - size + 1].packet.timestamp

\* C23: after a full batch is sent next_play_time is the time read when the
\* batch was sent plus the timestamp of the last record of that batch minus
\* the timestamp of the first record of that same batch
C23_NextPlayTime ==
    BatchJustSent => next_play_time = Some(last_play_time[1] + SpanOfLastBatch)

\* a second full batch, whose first record is not at 0.0, was sent after the
\* clock had moved
C23_Witness ==
    /\ BatchJustSent
    /\ Len(p_log) = 2
    /\ last_play_time[1] > 0
    /\ p_log[2].span > 0
    /\ next_play_time = Some(last_play_time[1] + p_log[2].span)

(***************************************************************************)
(* Statements about stopping a recording (SpecRec)                         *)
(***************************************************************************)
\* C24: the record loop is interrupted by stop: a call of Recorder.stop
\* leaves the recorder's state stopped, and the loop, which looks at the
\* state before each wait for a datagram, ends once it sees it stopped and
\* has then written nothing more
C24_StopInterruptsRecord ==
    r_impl = "udptools" =>
        /\ r_stop # "uncalled" => recorder_state = "stopped"
        /\ r_pc = "done" => (recorder_state = "stopped" /\ file = <<>>)

(***************************************************************************)
(* Statements about concurrent callers and about the return of stop        *)
(* (SpecCtl)                                                               *)
(***************************************************************************)
AliveTasks == {t \in 1..Len(tasks) : is_alive(tasks, t)}

\* C25: whatever the interleaving of the start and stop calls of concurrent
\* callers on one controller, at most one of its background tasks is alive
C25_OneTaskAlive == Cardinality(AliveTasks) <= 1

\* the last call made on the controller was a stop of a running session that
\* returned normally
StopReturned ==
    /\ k_log # <<>>
    /\ Succeeded(Len(k_log), "stop")
    /\ k_log[Len(k_log)].running

\* C26: from the normal return of a stop of an active session until the next
\* start none of the controller's background tasks is alive, so none sends
\* a payload or writes a record
C26_NothingAfterStopReturns == StopReturned => AliveTasks = {}

(***************************************************************************)
(* Statements about the recursion of the binary-search seek (SpecSeek)     *)
(***************************************************************************)
RangeLen(call) == call.end_pos - call.start_pos

\* C27: find_timestamp_position ends on every trace and target: each call of
\* find_recursive made by another is on a range inside its caller's and
\* strictly shorter, and a call that skipped a fragment of at least half its
\* range calls no further
C27_RangesShrink ==
    (s_impl = "find_timestamp_position" /\ s_pc \in {"returned", "raised"}) =>
        /\ s_calls # <<>>
        /\ \A i \in 1..(Len(s_calls) - 1) :
                /\ s_calls[i].start_pos <= s_calls[i + 1].start_pos
                /\ s_calls[i + 1].end_pos <= s_calls[i].end_pos
                /\ RangeLen(s_calls[i + 1]) < RangeLen(s_calls[i])
        /\ \A i \in 1..Len(s_calls) :
                s_calls[i].skipped >= RangeLen(s_calls[i]) \div 2 => i = Len(s_calls)

\* a search that went to the left and to the right before a call skipped half
\* of its range
C27_Witness ==
    /\ s_impl = "find_timestamp_position" /\ s_pc = "returned"
    /\ Len(s_calls) >= 3
    /\ \E i \in 1..(Len(s_calls) - 1) : s_calls[i + 1].start_pos > s_calls[i].start_pos
    /\ \E i \in 1..(Len(s_calls) - 1) : s_calls[i + 1].end_pos < s_calls[i].end_pos
    /\ s_calls[Len(s_calls)].skipped >= RangeLen(s_calls[Len(s_calls)]) \div 2

=============================================================================
